---- MODULE Spec2Model ----
(***************************************************************************)
(* Formulation server actions of gadogado-feed-formulator                  *)
(* (createFormulation, updateFormulation, deleteFormulation,               *)
(* toggleFormulationStatus, duplicateFormulation, getFormulationById)      *)
(* over the formulations and formulation_ingredients tables.               *)
(*                                                                         *)
(* Spec runs the calls one after the other.  SpecRace and SpecOverlap let  *)
(* one updateFormulation or deleteFormulation call stand between its       *)
(* checks and its writes while other calls run; pending holds that call.   *)
(* SpecSeeded starts from a store that holds a formulation already.        *)
(* SpecImport runs importIngredients calls over the ingredients table,     *)
(* held in ingredientRows as costPerUnit by name.                          *)
(*                                                                         *)
(* Units.  Caller-supplied percentages are JS numbers; they are modelled   *)
(* in thousandths of a percent.  numeric(5,2) columns hold hundredths,     *)
(* numeric(8,6) millionths, money columns hold cents, quantities are whole *)
(* units.  An optional key of a caller's object is None when the key is    *)
(* missing and Some(v) when it is present.                                 *)
(***************************************************************************)
EXTENDS Integers, Sequences, FiniteSets, TLC

VARIABLES formulations, formulationIngredients, nextId, result, pending,
          ingredientRows

vars == <<formulations, formulationIngredients, nextId, result, pending, ingredientRows>>

\* Number of identifiers createFormulation may allocate in one run.
MaxFormulations == 1

None == <<>>
Some(v) == <<v>>
IsSome(o) == Len(o) = 1
Val(o) == o[1]

-----------------------------------------------------------------------------
(* Collaborator tables, read-only here.                                    *)

\* Rows of the ingredients table: id -> cost_per_unit in cents.  Every
\* ingredient the application stores has a positive cost.
ingredients == [corn |-> 100, soy |-> 150, fish |-> 300,
                bran |-> 50, lime |-> 20, salt |-> 10]

\* A well-formed uuid that names no row of ingredients.
GhostIngredient == "ghost"

\* Rows of the animals table, and a well-formed uuid naming none of them.
animals == {"cow"}
GhostAnimal == "yeti"

FORMULATION_STATUS == {"draft", "active", "archived", "template"}

-----------------------------------------------------------------------------
(* Column types.                                                           *)

\* Round a non-negative rational n/d half up to an integer.
RoundDiv(n, d) == (2 * n + d) \div (2 * d)

\* A JS number x/1000 stored in a numeric(5,2) column, in hundredths:
\* PostgreSQL rounds to the column's scale.
percentageColumn(x) == RoundDiv(x, 10)

\* percentage / 100 stored in numeric(8,6), in millionths.
proportionColumn(x) == x * 10

\* The share left as a fraction: the factor 100 forgotten.
costPercentageFraction(ingredientCost, totalCost) ==
    IF totalCost # 0 THEN [kind |-> "finite", num |-> ingredientCost, den |-> totalCost]
    ELSE [kind |-> "NaN", num |-> 0, den |-> 1]

\* The JS value (ingredientCost / totalCost) * 100, cents over cents.
costPercentageValue(ingredientCost, totalCost) ==
    IF totalCost # 0 THEN [kind |-> "finite", num |-> ingredientCost * 100, den |-> totalCost]
    ELSE IF ingredientCost = 0 THEN [kind |-> "NaN", num |-> 0, den |-> 1]
    ELSE [kind |-> "Infinity", num |-> 0, den |-> 1]

\* cost_percentage numeric(5,2): the stored hundredths, "NaN", or an
\* overflow error for infinities and rounded values of 1000.00 and above.
Numeric52Limit == 100000
costPercentageColumn(v) ==
    IF v.kind = "NaN" THEN [ok |-> TRUE, stored |-> -1]
    ELSE IF v.kind = "Infinity" THEN [ok |-> FALSE, stored |-> 0]
    ELSE LET r == RoundDiv(v.num * 100, v.den)
         IN  [ok |-> r < Numeric52Limit, stored |-> r]

-----------------------------------------------------------------------------
(* Input validation (zod).                                                 *)

MetaKeys == {"name", "status", "animalId", "totalCost", "ingredientCount",
             "nutritionalAnalysis", "meetsRequirements", "mainIngredients"}

\* One element of createFormulationSchema.ingredients.
entrySchema(e) ==
    /\ e.quantity > 0
    /\ e.percentage >= 0
    /\ e.percentage <= 100000

\* A schema that lets an empty ingredients list through.
fieldSchemaNoMin(k, v) ==
    CASE k = "name" -> v # ""
      [] k = "status" -> v \in FORMULATION_STATUS
      [] k = "totalCost" -> v >= 0
      [] k = "ingredientCount" -> v >= 0
      [] k = "ingredients" -> \A i \in 1..Len(v) : entrySchema(v[i])
      [] OTHER -> TRUE

\* The check zod runs on the value of one key.
fieldSchema(k, v) ==
    CASE k = "name" -> v # ""
      [] k = "status" -> v \in FORMULATION_STATUS
      [] k = "totalCost" -> v >= 0
      [] k = "ingredientCount" -> v >= 0
      [] k = "ingredients" -> Len(v) >= 1 /\ \A i \in 1..Len(v) : entrySchema(v[i])
      [] OTHER -> TRUE

\* Keys of insertFormulationSchema that carry neither .optional() nor .default().
RequiredKeys == {"name", "animalId", "totalCost", "ingredientCount",
                 "nutritionalAnalysis", "meetsRequirements", "ingredients"}

\* createFormulationSchema.safeParse(data): the parsed object, with the
\* status default filled in, or failure.
createFormulationSchema(data) ==
    LET ok == \A k \in DOMAIN data :
                  /\ (k \in RequiredKeys => IsSome(data[k]))
                  /\ (IsSome(data[k]) => fieldSchema(k, Val(data[k])))
    IN  [success |-> ok,
         data |-> IF IsSome(data.status) THEN data
                  ELSE [data EXCEPT !.status = Some("draft")]]

\* createFormulationSchema.partial().safeParse(data): every key optional,
\* and a missing key stays missing (no default is filled in).
partialFormulationSchema(data) ==
    [success |-> \A k \in DOMAIN data :
                     IsSome(data[k]) => fieldSchema(k, Val(data[k])),
     data |-> data]

\* validateInput(schema, data), schema named by partial or not.
validateInput(partial, data) ==
    IF partial THEN partialFormulationSchema(data) ELSE createFormulationSchema(data)

\* The errors record validateInput builds from the issues of a failed
\* parse, as the set of its keys; a key is the input field the issue
\* path starts with.
validationErrors(partial, data) ==
    {k \in DOMAIN data :
        \/ ~partial /\ k \in RequiredKeys /\ ~IsSome(data[k])
        \/ IsSome(data[k]) /\ ~fieldSchema(k, Val(data[k]))}

\* handleDatabaseError: the error string by SQLSTATE.
handleDatabaseError(code) ==
    CASE code = "23505" -> "Duplicate entry"
      [] code = "23503" -> "Foreign key constraint violation"
      [] code = "23502" -> "Missing required field"
      [] OTHER -> "Database operation failed"

-----------------------------------------------------------------------------
(* Percentage validator and summary builder.                               *)

RECURSIVE totalPercentage(_)
\* ingredientData.reduce((sum, ing) => sum + ing.percentage, 0)
totalPercentage(ingredientData) ==
    IF ingredientData = <<>> THEN 0
    ELSE ingredientData[1].percentage + totalPercentage(Tail(ingredientData))

\* Tolerance of the sum check, 0.1 percent in thousandths.
Tolerance == 100

\* Math.abs(totalPercentage - 100) > 0.1
percentagesInvalid(ingredientData) ==
    LET t == totalPercentage(ingredientData)
        d == IF t >= 100000 THEN t - 100000 ELSE 100000 - t
    IN  d > Tolerance

\* Insert e behind every element whose percentage is not smaller.
insertDesc(sorted, e) ==
    LET before == SelectSeq(sorted, LAMBDA x : x.percentage >= e.percentage)
        after == SelectSeq(sorted, LAMBDA x : x.percentage < e.percentage)
    IN  before \o <<e>> \o after

RECURSIVE sortByPercentage(_)
\* ingredientData.sort((a, b) => b.percentage - a.percentage): descending,
\* stable (Array.prototype.sort keeps the order of equal elements).
sortByPercentage(ingredientData) ==
    IF ingredientData = <<>> THEN <<>>
    ELSE LET n == Len(ingredientData)
         IN  insertDesc(sortByPercentage(SubSeq(ingredientData, 1, n - 1)),
                        ingredientData[n])

\* .slice(0, 5)
TopN == 5

\* The value written to main_ingredients.
mainIngredients(ingredientData) ==
    LET sorted == sortByPercentage(ingredientData)
        n == IF Len(sorted) < TopN THEN Len(sorted) ELSE TopN
    IN  [i \in 1..n |-> [ingredientId |-> sorted[i].ingredientId,
                          percentage |-> sorted[i].percentage]]

-----------------------------------------------------------------------------
(* Storage.                                                                *)

\* The two tables as one value, the unit a transaction works on.
database == [formulations |-> formulations,
             formulationIngredients |-> formulationIngredients]

\* A transaction body that ran to its end, or threw with an SQLSTATE; db
\* holds the writes made so far, writes counts the write statements issued,
\* lookups lists the ingredient references the body selected costPerUnit for.
returned(db, writes) ==
    [threw |-> FALSE, code |-> "", db |-> db, writes |-> writes, lookups |-> <<>>]
threw(code, db, writes) ==
    [threw |-> TRUE, code |-> code, db |-> db, writes |-> writes, lookups |-> <<>>]

\* The selects of costPerUnit issued by the ingredientData.map callback,
\* one per entry, each named by the reference it asks for.
unitCostLookups(ingredientData) ==
    [i \in 1..Len(ingredientData) |-> ingredientData[i].ingredientId]

\* The outcome of a body that got as far as the map over ingredientData.
selected(outcome, ingredientData) ==
    [outcome EXCEPT !.lookups = unitCostLookups(ingredientData)]

\* SQLSTATE of a lost connection, of a foreign-key violation and of a
\* numeric field overflow.
ConnectionFailure == "08006"
ForeignKeyViolation == "23503"
NumericOverflow == "22003"

\* A transaction that keeps the writes of a body that threw.
transactionNoRollback(before, outcome) == outcome.db

\* db.transaction(body): commit what the body wrote, or roll back to the
\* tables as they were when the body throws.
transaction(before, outcome) ==
    IF outcome.threw THEN before ELSE outcome.db

\* The select without its WHERE clause.
ingredientsOfAny(db, id) == db.formulationIngredients

\* Rows of formulation_ingredients owned by formulation id, in table order.
ingredientsOf(db, id) ==
    SelectSeq(db.formulationIngredients, LAMBDA r : r.formulationId = id)

\* A delete that removes nothing.
deleteIngredientsNone(db, id) == db

\* DELETE FROM formulation_ingredients WHERE formulation_id = id
deleteIngredients(db, id) ==
    [db EXCEPT !.formulationIngredients = SelectSeq(@, LAMBDA r : r.formulationId # id)]

\* DELETE FROM formulations WHERE id = id, with ON DELETE CASCADE on
\* formulation_ingredients.formulation_id.
deleteCascade(db, id) ==
    [formulations |-> [f \in DOMAIN db.formulations \ {id} |-> db.formulations[f]],
     formulationIngredients |-> deleteIngredients(db, id).formulationIngredients]

\* The object built for one entry in the ingredientData.map callback.
\* costPerUnit is 0 when the select finds no ingredient.
ingredientRow(id, ing, index, totalCost) ==
    LET costPerUnit == IF ing.ingredientId \in DOMAIN ingredients
                       THEN ingredients[ing.ingredientId] ELSE 0
        ingredientCost == costPerUnit * ing.quantity
    IN  [formulationId |-> id,
         ingredientId |-> ing.ingredientId,
         quantity |-> ing.quantity,
         percentage |-> ing.percentage,
         proportion |-> ing.percentage,
         ingredientCost |-> ingredientCost,
         costPercentage |-> costPercentageValue(ingredientCost, totalCost),
         ingredientRole |-> ing.ingredientRole,
         isEssential |-> ing.isEssential,
         sequenceOrder |-> index,
         displayOrder |-> index]

\* The row as the columns of formulation_ingredients hold it.
storedRow(r) ==
    [r EXCEPT !.percentage = percentageColumn(@),
              !.proportion = proportionColumn(@),
              !.costPercentage = costPercentageColumn(@).stored]

\* INSERT INTO formulation_ingredients VALUES rows: the SQLSTATE raised, or "".
insertIngredientsError(rows) ==
    IF \E i \in 1..Len(rows) : ~costPercentageColumn(rows[i].costPercentage).ok
    THEN NumericOverflow
    ELSE IF \E i \in 1..Len(rows) : rows[i].ingredientId \notin DOMAIN ingredients
    THEN ForeignKeyViolation
    ELSE ""

\* An insert that loses the last row.
insertIngredientsPartial(db, rows) ==
    [db EXCEPT !.formulationIngredients =
        @ \o [i \in 1..(Len(rows) - 1) |-> storedRow(rows[i])]]

insertIngredients(db, rows) ==
    [db EXCEPT !.formulationIngredients = @ \o [i \in 1..Len(rows) |-> storedRow(rows[i])]]

-----------------------------------------------------------------------------
(* Reader.                                                                 *)

\* Insert r behind every row whose displayOrder is not larger.
insertAsc(sorted, r) ==
    LET before == SelectSeq(sorted, LAMBDA x : x.displayOrder <= r.displayOrder)
        after == SelectSeq(sorted, LAMBDA x : x.displayOrder > r.displayOrder)
    IN  before \o <<r>> \o after

RECURSIVE orderByDisplayOrder(_)
\* ORDER BY display_order ASC
orderByDisplayOrder(rows) ==
    IF rows = <<>> THEN <<>>
    ELSE LET n == Len(rows)
         IN  insertAsc(orderByDisplayOrder(SubSeq(rows, 1, n - 1)), rows[n])

\* getFormulationById(id): the formulation and its ingredient rows.
getFormulationById(db, id) ==
    IF id \notin DOMAIN db.formulations
    THEN [success |-> FALSE, error |-> "Formulation not found",
          data |-> <<>>, ingredients |-> <<>>]
    ELSE [success |-> TRUE, error |-> "",
          data |-> <<db.formulations[id]>>,
          ingredients |-> orderByDisplayOrder(ingredientsOf(db, id))]

-----------------------------------------------------------------------------
(* Transaction bodies.                                                     *)

\* The insert with the caller's ingredientCount, nutritionalAnalysis and
\* meetsRequirements left in place.
newFormulationAsSupplied(formulationData, ingredientData) ==
    [name |-> Val(formulationData.name),
     status |-> Val(formulationData.status),
     animalId |-> Val(formulationData.animalId),
     totalCost |-> Val(formulationData.totalCost),
     ingredientCount |-> Val(formulationData.ingredientCount),
     mainIngredients |-> mainIngredients(ingredientData),
     nutritionalAnalysis |-> Val(formulationData.nutritionalAnalysis),
     meetsRequirements |-> Val(formulationData.meetsRequirements)]

\* The values of the INSERT INTO formulations of createFormulation: the
\* parsed metadata, then the four keys the action sets itself.
newFormulation(formulationData, ingredientData) ==
    [name |-> Val(formulationData.name),
     status |-> Val(formulationData.status),
     animalId |-> Val(formulationData.animalId),
     totalCost |-> Val(formulationData.totalCost),
     ingredientCount |-> Len(ingredientData),
     mainIngredients |-> mainIngredients(ingredientData),
     nutritionalAnalysis |-> "{}",
     meetsRequirements |-> FALSE]

\* The callback of db.transaction in createFormulation.  The sort that
\* builds mainIngredients reorders ingredientData in place before the rows
\* are built from it.  fault names the statement at which the connection
\* is lost, if any.
createBody(db, id, formulationData, ingredientData, fault) ==
    LET sorted == sortByPercentage(ingredientData)
        db1 == [db EXCEPT !.formulations =
                   (id :> newFormulation(formulationData, ingredientData)) @@ @]
        rows == [i \in 1..Len(sorted) |->
                    ingredientRow(id, sorted[i], i - 1, Val(formulationData.totalCost))]
    IN  IF fault = "insertFormulation" THEN threw(ConnectionFailure, db, 1)
        ELSE IF Val(formulationData.animalId) \notin animals
        THEN threw(ForeignKeyViolation, db, 1)
        ELSE IF fault = "lookup" THEN selected(threw(ConnectionFailure, db1, 1), sorted)
        ELSE IF fault = "insertIngredients"
        THEN selected(threw(ConnectionFailure, db1, 2), sorted)
        ELSE IF insertIngredientsError(rows) # ""
        THEN selected(threw(insertIngredientsError(rows), db1, 2), sorted)
        ELSE selected(returned(insertIngredients(db1, rows), 2), sorted)

\* An update that also writes the schema's default status when the caller
\* sent none.
setFormulationDefaults(db, id, formulationData) ==
    [db EXCEPT !.formulations[id] =
        [k \in DOMAIN @ |-> IF IsSome(formulationData[k]) THEN Val(formulationData[k])
                            ELSE IF k = "status" THEN "draft" ELSE @[k]]]

\* UPDATE formulations SET ...formulationData WHERE id = id
setFormulation(db, id, formulationData) ==
    [db EXCEPT !.formulations[id] =
        [k \in DOMAIN @ |-> IF IsSome(formulationData[k])
                            THEN Val(formulationData[k]) ELSE @[k]]]

\* UPDATE formulations SET ingredientCount, mainIngredients WHERE id = id
setSummary(db, id, ingredientData) ==
    [db EXCEPT !.formulations[id].ingredientCount = Len(ingredientData),
               !.formulations[id].mainIngredients = mainIngredients(ingredientData)]

\* The callback of db.transaction in updateFormulation.  ingredientData is
\* None when the caller sent no ingredients key.
updateBody(db, id, formulationData, ingredientData, fault) ==
    LET hasData == \E k \in MetaKeys : IsSome(formulationData[k])
        w1 == IF hasData THEN 1 ELSE 0
        db1 == IF hasData THEN setFormulation(db, id, formulationData) ELSE db
        ing == Val(ingredientData)
        db2 == deleteIngredients(db1, id)
        totalCost == IF IsSome(formulationData.totalCost)
                     THEN Val(formulationData.totalCost) ELSE 0
        rows == [i \in 1..Len(ing) |-> ingredientRow(id, ing[i], i - 1, totalCost)]
        db3 == insertIngredients(db2, rows)
    IN  IF hasData /\ fault = "updateFormulation" THEN threw(ConnectionFailure, db, 1)
        ELSE IF hasData /\ db1.formulations[id].animalId \notin animals
        THEN threw(ForeignKeyViolation, db, 1)
        ELSE IF ~IsSome(ingredientData) THEN returned(db1, w1)
        ELSE IF percentagesInvalid(ing) THEN threw("", db1, w1)
        ELSE IF fault = "lookup" THEN selected(threw(ConnectionFailure, db2, w1 + 1), ing)
        ELSE IF fault = "insertIngredients"
        THEN selected(threw(ConnectionFailure, db2, w1 + 2), ing)
        ELSE IF insertIngredientsError(rows) # ""
        THEN selected(threw(insertIngredientsError(rows), db2, w1 + 2), ing)
        ELSE IF fault = "updateSummary"
        THEN selected(threw(ConnectionFailure, db3, w1 + 3), ing)
        ELSE selected(returned(setSummary(db3, id, ing), w1 + 3), ing)

-----------------------------------------------------------------------------
(* Server actions.  result is what the last call returned: the action, the *)
(* identifier it was about (0 for none), the error string ("" on success), *)
(* the number of write statements the call issued, for a read the          *)
(* ingredient rows returned, for a failed validation the fields that carry *)
(* messages, and the unit-cost selects the call issued.                    *)

response(op, id, error, writes, data) ==
    [op |-> op, id |-> id, error |-> error, writes |-> writes, data |-> data,
     validationErrors |-> {}, lookups |-> <<>>]

\* The response of a call that ran a transaction body.
responseOf(op, id, error, outcome) ==
    [response(op, id, error, outcome.writes, <<>>) EXCEPT !.lookups = outcome.lookups]

\* { success: false, error: 'Validation failed', validationErrors }
validationFailed(op, id, errors) ==
    [response(op, id, "Validation failed", 0, <<>>) EXCEPT !.validationErrors = errors]

\* const { ingredients: ingredientData, ...formulationData } = validatedData.data
restOf(data) == [k \in MetaKeys |-> data[k]]

commit(db) ==
    /\ formulations' = db.formulations
    /\ formulationIngredients' = db.formulationIngredients

\* The guard left out: nothing counts as active.
isActiveNever(status) == FALSE

\* existingFormulation[0].status === 'active', the guard of update and delete.
isActive(status) == status = "active"

\* createFormulation(data), called as op by a client or by duplicateFormulation.
createFormulationCall(op, data, fault) ==
    LET validatedData == validateInput(FALSE, data)
        ingredientData == Val(validatedData.data.ingredients)
        formulationData == restOf(validatedData.data)
        outcome == createBody(database, nextId, formulationData, ingredientData, fault)
    IN  IF ~validatedData.success
        THEN /\ result' = validationFailed(op, 0, validationErrors(FALSE, data))
             /\ UNCHANGED <<formulations, formulationIngredients, nextId>>
        ELSE IF percentagesInvalid(ingredientData)
        THEN /\ result' = response(op, 0, "Invalid ingredient percentages", 0, <<>>)
             /\ UNCHANGED <<formulations, formulationIngredients, nextId>>
        ELSE /\ nextId <= MaxFormulations
             /\ commit(transaction(database, outcome))
             /\ IF outcome.threw
                THEN /\ result' = responseOf(op, 0, handleDatabaseError(outcome.code),
                                             outcome)
                     /\ UNCHANGED nextId
                ELSE /\ result' = responseOf(op, nextId, "", outcome)
                     /\ nextId' = nextId + 1

createFormulation(data, fault) == createFormulationCall("create", data, fault)

updateFormulation(id, data, fault) ==
    LET validatedData == validateInput(TRUE, data)
        ingredientData == validatedData.data.ingredients
        formulationData == restOf(validatedData.data)
        outcome == updateBody(database, id, formulationData, ingredientData, fault)
    IN  /\ UNCHANGED nextId
        /\ IF ~validatedData.success
           THEN /\ result' = validationFailed("update", id, validationErrors(TRUE, data))
                /\ UNCHANGED <<formulations, formulationIngredients>>
           ELSE IF id \notin DOMAIN formulations
           THEN /\ result' = response("update", id, "Formulation not found", 0, <<>>)
                /\ UNCHANGED <<formulations, formulationIngredients>>
           ELSE IF isActive(formulations[id].status)
           THEN /\ result' = response("update", id, "Cannot edit active formulation", 0, <<>>)
                /\ UNCHANGED <<formulations, formulationIngredients>>
           ELSE /\ commit(transaction(database, outcome))
                /\ result' = responseOf("update", id,
                                        IF outcome.threw
                                        THEN handleDatabaseError(outcome.code) ELSE "",
                                        outcome)

\* A delete that does not look the formulation up first.
deleteFormulationBlind(id) ==
    /\ UNCHANGED nextId
    /\ IF id \in DOMAIN formulations /\ isActive(formulations[id].status)
       THEN /\ result' = response("delete", id, "Cannot delete active formulation", 0, <<>>)
            /\ UNCHANGED <<formulations, formulationIngredients>>
       ELSE /\ commit(deleteCascade(database, id))
            /\ result' = response("delete", id, "", 1, <<>>)

deleteFormulation(id) ==
    /\ UNCHANGED nextId
    /\ IF id \notin DOMAIN formulations
       THEN /\ result' = response("delete", id, "Formulation not found", 0, <<>>)
            /\ UNCHANGED <<formulations, formulationIngredients>>
       ELSE IF isActive(formulations[id].status)
       THEN /\ result' = response("delete", id, "Cannot delete active formulation", 0, <<>>)
            /\ UNCHANGED <<formulations, formulationIngredients>>
       ELSE /\ commit(deleteCascade(database, id))
            /\ result' = response("delete", id, "", 1, <<>>)

toggleFormulationStatus(id, activate) ==
    /\ UNCHANGED <<formulationIngredients, nextId>>
    /\ IF id \notin DOMAIN formulations
       THEN /\ result' = response("toggle", id, "Formulation not found", 1, <<>>)
            /\ UNCHANGED formulations
       ELSE /\ formulations' = [formulations EXCEPT ![id].status =
                                   IF activate THEN "active" ELSE "draft"]
            /\ result' = response("toggle", id, "", 1, <<>>)

\* The entry duplicateFormulation builds from a row read back.
copyOfIngredient(ing) ==
    [ingredientId |-> ing.ingredientId,
     quantity |-> ing.quantity,
     percentage |-> ing.percentage * 10,
     ingredientRole |-> ing.ingredientRole,
     isEssential |-> ing.isEssential]

\* newFormulationData of duplicateFormulation: it carries no
\* ingredientCount, nutritionalAnalysis or meetsRequirements key.  (The
\* decimal columns copied here, totalCost, quantity and percentage, reach
\* the schema as the strings the driver returns, which z.number() refuses
\* as well; the missing keys alone already fail the parse.)
copyOfFormulation(original, ings, newName) ==
    [name |-> Some(newName),
     status |-> Some("draft"),
     animalId |-> Some(original.animalId),
     totalCost |-> Some(original.totalCost),
     ingredientCount |-> None,
     nutritionalAnalysis |-> None,
     meetsRequirements |-> None,
     mainIngredients |-> None,
     ingredients |-> Some([i \in 1..Len(ings) |-> copyOfIngredient(ings[i])])]

duplicateFormulation(id, newName) ==
    LET originalResult == getFormulationById(database, id)
    IN  IF ~originalResult.success
        THEN /\ result' = response("duplicate", id, "Original formulation not found", 0, <<>>)
             /\ UNCHANGED <<formulations, formulationIngredients, nextId>>
        ELSE createFormulationCall("duplicate",
                 copyOfFormulation(Val(originalResult.data), originalResult.ingredients, newName),
                 "none")

\* No foreign-key check on formulation_id.
referencesMissingFormulationNever(db, rows) == FALSE

\* formulation_id REFERENCES formulations(id): some row names a formulation
\* that db does not hold.
referencesMissingFormulation(db, rows) ==
    \E i \in 1..Len(rows) : rows[i].formulationId \notin DOMAIN db.formulations

\* The callback of db.transaction in updateFormulation when the formulation
\* has been deleted since the existence check: both UPDATE statements and
\* the DELETE match no row.
updateBodyDeleted(db, id, formulationData, ingredientData) ==
    LET hasData == \E k \in MetaKeys : IsSome(formulationData[k])
        w1 == IF hasData THEN 1 ELSE 0
        ing == Val(ingredientData)
        totalCost == IF IsSome(formulationData.totalCost)
                     THEN Val(formulationData.totalCost) ELSE 0
        rows == [i \in 1..Len(ing) |-> ingredientRow(id, ing[i], i - 1, totalCost)]
    IN  IF ~IsSome(ingredientData) THEN returned(db, w1)
        ELSE IF percentagesInvalid(ing) THEN threw("", db, w1)
        ELSE IF insertIngredientsError(rows) # ""
        THEN selected(threw(insertIngredientsError(rows), db, w1 + 2), ing)
        ELSE IF referencesMissingFormulation(db, rows)
        THEN selected(threw(ForeignKeyViolation, db, w1 + 2), ing)
        ELSE selected(returned(insertIngredients(db, rows), w1 + 3), ing)

\* updateFormulation up to the start of its transaction: the input and the
\* formulation passed the checks, the call is in flight.
updateFormulationCheck(id, data) ==
    /\ pending = None
    /\ validateInput(TRUE, data).success
    /\ id \in DOMAIN formulations
    /\ ~isActive(formulations[id].status)
    /\ pending' = Some([op |-> "update", id |-> id, data |-> data])
    /\ UNCHANGED <<formulations, formulationIngredients, nextId, result, ingredientRows>>

\* The rest of the call in flight: the transaction against the tables as
\* they are now, then the read of the formulation for the response.
updateFormulationTransaction ==
    /\ pending # None
    /\ Val(pending).op = "update"
    /\ LET id == Val(pending).id
           validatedData == validateInput(TRUE, Val(pending).data)
           ingredientData == validatedData.data.ingredients
           formulationData == restOf(validatedData.data)
           outcome == IF id \in DOMAIN formulations
                      THEN updateBody(database, id, formulationData, ingredientData, "none")
                      ELSE updateBodyDeleted(database, id, formulationData, ingredientData)
           after == transaction(database, outcome)
       IN  /\ commit(after)
           /\ result' = responseOf("update", id,
                                   IF outcome.threw THEN handleDatabaseError(outcome.code)
                                   ELSE getFormulationById(after, id).error,
                                   outcome)
    /\ pending' = None
    /\ UNCHANGED <<nextId, ingredientRows>>

\* deleteFormulation up to its delete statement: the formulation was
\* found and is not active, the call is in flight.
deleteFormulationCheck(id) ==
    /\ pending = None
    /\ id \in DOMAIN formulations
    /\ ~isActive(formulations[id].status)
    /\ pending' = Some([op |-> "delete", id |-> id, data |-> <<>>])
    /\ UNCHANGED <<formulations, formulationIngredients, nextId, result, ingredientRows>>

\* The rest of the call in flight: DELETE FROM formulations WHERE id = id
\* against the tables as they are now.
deleteFormulationDelete ==
    /\ pending # None
    /\ Val(pending).op = "delete"
    /\ commit(deleteCascade(database, Val(pending).id))
    /\ result' = response("delete", Val(pending).id, "", 1, <<>>)
    /\ pending' = None
    /\ UNCHANGED <<nextId, ingredientRows>>

\* A client reading one formulation.
readFormulation(id) ==
    LET r == getFormulationById(database, id)
    IN  /\ result' = response("read", id, r.error, 0, r.ingredients)
        /\ UNCHANGED <<formulations, formulationIngredients, nextId>>

-----------------------------------------------------------------------------
(* Calls the clients make.                                                 *)

entry(ingredientId, quantity, percentage) ==
    [ingredientId |-> ingredientId, quantity |-> quantity, percentage |-> percentage,
     ingredientRole |-> "Primary", isEssential |-> FALSE]

\* 60/40, the percentages already descending.
MixA == <<entry("corn", 60, 60000), entry("soy", 40, 40000)>>
\* Six entries, not in percentage order, two of them equal.
MixSix == <<entry("salt", 5, 5000), entry("corn", 30, 30000), entry("soy", 20, 20000),
            entry("lime", 10, 10000), entry("fish", 20, 20000), entry("bran", 15, 15000)>>
\* Sum 100.098: inside the tolerance, off the grid of numeric(5,2).
MixRound == <<entry("corn", 33, 33366), entry("soy", 33, 33366), entry("fish", 33, 33366)>>
\* 40/60, the percentages ascending.
MixAsc == <<entry("soy", 40, 40000), entry("corn", 60, 60000)>>
\* Sum 99.
MixBad == <<entry("corn", 50, 50000), entry("soy", 49, 49000)>>
\* An ingredient reference that resolves to nothing.
MixGhost == <<entry("corn", 60, 60000), entry(GhostIngredient, 40, 40000)>>
\* No entry at all.
MixEmpty == <<>>
\* The same ingredient named by two entries.
MixTwice == <<entry("corn", 50, 50000), entry("corn", 50, 50000)>>

\* The lists createFormulation and updateFormulation are called with.
CreateMixes == {MixA, MixSix, MixRound, MixBad, MixGhost, MixEmpty}
UpdateMixes == {MixAsc, MixBad, MixGhost, MixEmpty}

\* A complete, valid createFormulation input around which the others vary.
BaseData == [name |-> Some("A"), status |-> None, animalId |-> Some("cow"),
             totalCost |-> Some(10000), ingredientCount |-> Some(0),
             nutritionalAnalysis |-> Some("{protein}"), meetsRequirements |-> Some(TRUE),
             mainIngredients |-> None, ingredients |-> Some(MixA)]

CreateInputs ==
    {[BaseData EXCEPT !.ingredients = Some(m)] : m \in CreateMixes}
    \cup {[BaseData EXCEPT !.status = Some(s)] : s \in FORMULATION_STATUS}
    \cup {[BaseData EXCEPT !.totalCost = Some(0)],
          [BaseData EXCEPT !.totalCost = Some(100)],
          [BaseData EXCEPT !.animalId = Some(GhostAnimal)],
          [BaseData EXCEPT !.name = Some("")],
          [BaseData EXCEPT !.ingredientCount = None]}

\* The statement at which the connection is lost, "none" for no loss.
CreateFaults == {"insertFormulation", "lookup", "insertIngredients"}

CreateCalls ==
    {<<data, "none">> : data \in CreateInputs}
    \cup {<<BaseData, fault>> : fault \in CreateFaults}

\* An updateFormulation input with no key at all.
NoData == [name |-> None, status |-> None, animalId |-> None, totalCost |-> None,
           ingredientCount |-> None, nutritionalAnalysis |-> None,
           meetsRequirements |-> None, mainIngredients |-> None, ingredients |-> None]

\* Inputs that carry metadata only.
MetaInputs ==
    {NoData}
    \cup {[NoData EXCEPT !.status = Some(s)] : s \in FORMULATION_STATUS}
    \cup {[NoData EXCEPT !.ingredientCount = Some(7), !.mainIngredients = Some(<<>>)],
          [NoData EXCEPT !.name = Some("")]}

\* Inputs that carry ingredient entries.
IngredientInputs ==
    {[p EXCEPT !.ingredients = Some(m)] :
        p \in {NoData, [NoData EXCEPT !.totalCost = Some(20000)],
               [NoData EXCEPT !.totalCost = Some(0)]},
        m \in UpdateMixes}

UpdateInputs == MetaInputs \cup IngredientInputs

UpdateFaults == {"updateFormulation", "lookup", "insertIngredients", "updateSummary"}

UpdateCalls ==
    {<<data, "none">> : data \in UpdateInputs}
    \cup {<<[NoData EXCEPT !.totalCost = Some(20000), !.ingredients = Some(MixAsc)], fault>> :
             fault \in UpdateFaults}

\* The updateFormulation inputs of the call that stays in flight.
RaceInputs ==
    {[NoData EXCEPT !.totalCost = Some(20000), !.ingredients = Some(m)] :
        m \in {MixAsc, MixTwice, MixGhost}}
    \cup {[NoData EXCEPT !.status = Some(s)] : s \in {"active", "archived"}}

Ids == 1..MaxFormulations

-----------------------------------------------------------------------------

Init ==
    /\ formulations = <<>>
    /\ formulationIngredients = <<>>
    /\ nextId = 1
    /\ result = response("none", 0, "", 0, <<>>)
    /\ pending = None
    /\ ingredientRows = ingredients

Create ==
    /\ \E call \in CreateCalls : createFormulation(call[1], call[2])
    /\ UNCHANGED <<pending, ingredientRows>>
Update ==
    /\ \E id \in Ids, call \in UpdateCalls : updateFormulation(id, call[1], call[2])
    /\ UNCHANGED <<pending, ingredientRows>>
Delete ==
    /\ \E id \in Ids : deleteFormulation(id)
    /\ UNCHANGED <<pending, ingredientRows>>
ToggleStatus ==
    /\ \E id \in Ids, activate \in BOOLEAN : toggleFormulationStatus(id, activate)
    /\ UNCHANGED <<pending, ingredientRows>>
Duplicate ==
    /\ \E id \in Ids : duplicateFormulation(id, "A (Copy)")
    /\ UNCHANGED <<pending, ingredientRows>>
Read ==
    /\ \E id \in Ids : readFormulation(id)
    /\ UNCHANGED <<pending, ingredientRows>>

Next == Create \/ Update \/ Delete \/ ToggleStatus \/ Duplicate \/ Read

Spec == Init /\ [][Next]_vars

\* Calls of createFormulation, deleteFormulation and updateFormulation, the
\* updateFormulation call split at the start of its transaction so that
\* the calls of other clients run between its checks and its writes.
UpdateCheck == \E id \in Ids, data \in RaceInputs : updateFormulationCheck(id, data)
UpdateTransaction == updateFormulationTransaction

NextRace == Create \/ Delete \/ UpdateCheck \/ UpdateTransaction

SpecRace == Init /\ [][NextRace]_vars

\* Calls of createFormulation, toggleFormulationStatus and updateFormulation
\* while one updateFormulation or deleteFormulation call is in flight
\* between its checks and its writes.
OverlapInputs ==
    {[NoData EXCEPT !.totalCost = Some(20000), !.ingredients = Some(m)] :
        m \in {MixAsc, MixRound}}
    \cup {[NoData EXCEPT !.name = Some("B")], [NoData EXCEPT !.status = Some("archived")]}

CreateOverlap ==
    /\ createFormulation(BaseData, "none")
    /\ UNCHANGED <<pending, ingredientRows>>
ToggleOverlap ==
    /\ pending # None
    /\ ToggleStatus
UpdateOverlap ==
    /\ pending # None
    /\ \E data \in OverlapInputs : updateFormulation(Val(pending).id, data, "none")
    /\ UNCHANGED <<pending, ingredientRows>>
UpdateCheckOverlap == \E id \in Ids, data \in OverlapInputs : updateFormulationCheck(id, data)
DeleteCheckOverlap == \E id \in Ids : deleteFormulationCheck(id)
DeleteOverlap == deleteFormulationDelete

NextOverlap ==
    \/ CreateOverlap \/ ToggleOverlap \/ UpdateOverlap
    \/ UpdateCheckOverlap \/ UpdateTransaction
    \/ DeleteCheckOverlap \/ DeleteOverlap

SpecOverlap == Init /\ [][NextOverlap]_vars

\* Reads among the calls on two or more formulations.  The store starts
\* with formulation 0, created from the six-entry list; clients create,
\* update, delete and read it and the formulations created after it.
SeededIds == 0..MaxFormulations

Seeded ==
    LET validatedData == validateInput(FALSE, [BaseData EXCEPT !.ingredients = Some(MixSix)])
    IN  createBody([formulations |-> <<>>, formulationIngredients |-> <<>>], 0,
                   restOf(validatedData.data), Val(validatedData.data.ingredients),
                   "none").db

InitSeeded ==
    /\ formulations = Seeded.formulations
    /\ formulationIngredients = Seeded.formulationIngredients
    /\ nextId = 1
    /\ result = response("none", 0, "", 0, <<>>)
    /\ pending = None
    /\ ingredientRows = ingredients

SeededUpdates ==
    {[NoData EXCEPT !.totalCost = Some(20000), !.ingredients = Some(MixAsc)],
     [NoData EXCEPT !.name = Some("B")]}

CreateSeeded ==
    /\ \E m \in {MixA, MixSix} :
          createFormulation([BaseData EXCEPT !.ingredients = Some(m)], "none")
    /\ UNCHANGED <<pending, ingredientRows>>
UpdateSeeded ==
    /\ \E id \in SeededIds, data \in SeededUpdates : updateFormulation(id, data, "none")
    /\ UNCHANGED <<pending, ingredientRows>>
DeleteSeeded ==
    /\ \E id \in SeededIds : deleteFormulation(id)
    /\ UNCHANGED <<pending, ingredientRows>>
ReadSeeded ==
    /\ \E id \in SeededIds : readFormulation(id)
    /\ UNCHANGED <<pending, ingredientRows>>

NextSeeded == CreateSeeded \/ UpdateSeeded \/ DeleteSeeded \/ ReadSeeded

SpecSeeded == InitSeeded /\ [][NextSeeded]_vars

-----------------------------------------------------------------------------
(* importIngredients.  An entry carries its name, its costPerUnit in cents *)
(* and the number of its nutritionalData records that name a known         *)
(* nutrient.  ingredients.name is unique.                                  *)

MaxImport == 3

importEntry(name, costPerUnit, nutritionalData) ==
    [name |-> name, costPerUnit |-> costPerUnit, nutritionalData |-> nutritionalData]

\* importIngredientSchema on one entry.
importIngredientSchema(e) == e.name # "" /\ e.costPerUnit > 0

\* bulkImportSchema: ingredients is z.array(importIngredientSchema).min(1).
bulkImportSchema(data) ==
    Len(data) >= 1 /\ \A i \in 1..Len(data) : importIngredientSchema(data[i])

\* options.skipDuplicates ?? true, options.updateExisting ?? false
validatedOptions(options) ==
    [skipDuplicates |-> IF IsSome(options.skipDuplicates)
                        THEN Val(options.skipDuplicates) ELSE TRUE,
     updateExisting |-> IF IsSome(options.updateExisting)
                        THEN Val(options.updateExisting) ELSE FALSE]

\* The counters and the error list before the loop; rows is the table,
\* log the branch each entry took, in order.
importStart(rows) ==
    [imported |-> 0, skipped |-> 0, errors |-> <<>>, log |-> <<>>, rows |-> rows]

\* A catch block that records nothing.
caughtSilently(acc, e) == [acc EXCEPT !.log = Append(@, "error")]

\* The catch block of the loop body: the failure goes to errors.
caught(acc, e) ==
    [acc EXCEPT !.errors = Append(@, e.name), !.log = Append(@, "error")]

importedOne(acc) == [acc EXCEPT !.imported = @ + 1, !.log = Append(@, "imported")]
skippedOne(acc) == [acc EXCEPT !.skipped = @ + 1, !.log = Append(@, "skipped")]

\* The body of the for loop on entry e at position i.  existingNames was
\* read before the loop; fault names the position and the statement at
\* which the connection is lost, if any.  No transaction spans the
\* statements of an entry: a write made before a failure stays.
importOne(acc, e, i, options, existingNames, fault) ==
    LET fails(stmt) == fault.at = i /\ fault.stmt = stmt
        written == [acc EXCEPT !.rows = (e.name :> e.costPerUnit) @@ @]
    IN  IF e.name \in existingNames
        THEN IF options.skipDuplicates /\ ~options.updateExisting THEN skippedOne(acc)
             ELSE IF options.updateExisting
             THEN IF fails("ingredient") THEN caught(acc, e)
                  ELSE IF e.nutritionalData > 0 /\ fails("nutrients") THEN caught(written, e)
                  ELSE importedOne(written)
             ELSE skippedOne(acc)
        ELSE IF fails("ingredient") THEN caught(acc, e)
             ELSE IF e.name \in DOMAIN acc.rows THEN caught(acc, e)
             ELSE IF e.nutritionalData > 0 /\ fails("nutrients") THEN caught(written, e)
             ELSE importedOne(written)

RECURSIVE importLoop(_, _, _, _, _, _)
\* for (const ingredientData of validatedData.ingredients), the first n
\* entries done.
importLoop(data, n, options, existingNames, rows, fault) ==
    IF n = 0 THEN importStart(rows)
    ELSE importOne(importLoop(data, n - 1, options, existingNames, rows, fault),
                   data[n], n, options, existingNames, fault)

\* What importIngredients returns: a failure, or the counters and errors.
importResponse(error, received, done) ==
    [op |-> "import", error |-> error, received |-> received,
     imported |-> done.imported, skipped |-> done.skipped,
     errors |-> done.errors, log |-> done.log]

\* importIngredients(data, options).  A list the schema refuses and a
\* failure of the reads before the loop end in the outer catch.
importIngredients(data, options, fault) ==
    LET done == importLoop(data, Len(data), validatedOptions(options),
                           DOMAIN ingredientRows, ingredientRows, fault)
    IN  /\ UNCHANGED <<formulations, formulationIngredients, nextId, pending>>
        /\ IF ~bulkImportSchema(data) \/ fault.stmt = "select"
           THEN /\ result' = importResponse(handleDatabaseError(
                                  IF fault.stmt = "select" THEN ConnectionFailure ELSE ""),
                                  Len(data), importStart(ingredientRows))
                /\ UNCHANGED ingredientRows
           ELSE /\ result' = importResponse("", Len(data), done)
                /\ ingredientRows' = done.rows

\* The entries clients import: a name the table holds and two new names,
\* one of them without nutritional data.
ImportEntries ==
    {importEntry("corn", 120, 1), importEntry("kelp", 80, 1), importEntry("whey", 200, 0)}

ImportLists == UNION {[1..n -> ImportEntries] : n \in 0..MaxImport}

ImportOptions ==
    {[skipDuplicates |-> None, updateExisting |-> None]}
    \cup {[skipDuplicates |-> Some(s), updateExisting |-> Some(u)] : s, u \in BOOLEAN}

NoFault == [at |-> 0, stmt |-> "none"]

ImportFaults(data) ==
    {NoFault, [at |-> 0, stmt |-> "select"]}
    \cup {[at |-> i, stmt |-> stmt] : i \in 1..Len(data), stmt \in {"ingredient", "nutrients"}}

Import ==
    \E data \in ImportLists, options \in ImportOptions :
        \E fault \in ImportFaults(data) : importIngredients(data, options, fault)

NextImport == Import

SpecImport == Init /\ [][NextImport]_vars

-----------------------------------------------------------------------------
(* Properties.                                                             *)

tables == <<formulations, formulationIngredients>>

InvalidState == {"Cannot edit active formulation", "Cannot delete active formulation"}
InvalidIngredientMix == "Invalid ingredient percentages"
ValidationFailed == "Validation failed"
StorageFailure == {"Database operation failed", "Foreign key constraint violation",
                   "Duplicate entry", "Missing required field"}

\* The formulation id is stored with status active.
Active(id) == id \in DOMAIN formulations /\ formulations[id].status = "active"

\* C1 as claimed: every updateFormulation or deleteFormulation call on a
\* formulation stored as active returns InvalidState, whatever data it
\* carries, and leaves both tables as they were.
C1_ActiveAlwaysInvalidState ==
    [][\A id \in Ids :
          (Active(id) /\ result'.op \in {"update", "delete"} /\ result'.id = id)
              => (result'.error \in InvalidState /\ UNCHANGED tables)]_vars

\* C1 amended: on a formulation stored as active, deleteFormulation and
\* updateFormulation with data that passes the schema return InvalidState,
\* updateFormulation with data that fails the schema returns Validation
\* failed, and in every case both tables stay as they were.
C1_ActiveRejected ==
    [][\A id \in Ids :
          (Active(id) /\ result'.op \in {"update", "delete"} /\ result'.id = id) =>
              /\ \A call \in UpdateCalls :
                    updateFormulation(id, call[1], call[2]) =>
                        /\ UNCHANGED tables
                        /\ result'.error =
                              IF validateInput(TRUE, call[1]).success
                              THEN "Cannot edit active formulation"
                              ELSE ValidationFailed
              /\ deleteFormulation(id) =>
                    /\ UNCHANGED tables
                    /\ result'.error = "Cannot delete active formulation"]_vars

\* An update was refused on a formulation that is stored as active.
C1_Witness ==
    /\ result.op = "update"
    /\ result.error = "Cannot edit active formulation"
    /\ Active(result.id)
    /\ Len(ingredientsOf(database, result.id)) > 0

\* C3: an updateFormulation call that returns an error, from the sum check
\* or from a statement failing inside the transaction, with or without
\* metadata in the same call, leaves the formulation row and its ingredient
\* rows as they were before the call.
C3_FailedUpdateLeavesNoTrace ==
    [][(result'.op = "update" /\ result'.error # "") => UNCHANGED tables]_vars

\* An update failed inside its transaction after a write had been issued.
C3_Witness ==
    /\ result.op = "update"
    /\ result.error \in StorageFailure
    /\ result.writes >= 1
    /\ result.id \in DOMAIN formulations

\* C4: a createFormulation call that returns an error leaves both tables as
\* they were, and one that succeeds leaves the new formulation with one
\* ingredient row per supplied entry.
C4_CreateAllOrNothing ==
    [][result'.op = "create" =>
          \A call \in CreateCalls :
              createFormulation(call[1], call[2]) =>
                  \/ result'.error # "" /\ UNCHANGED tables
                  \/ /\ result'.error = ""
                     /\ result'.id \in DOMAIN formulations'
                     /\ Len(SelectSeq(formulationIngredients',
                                      LAMBDA r : r.formulationId = result'.id))
                           = Len(Val(call[1].ingredients))]_vars

\* A create failed at the ingredient insert, after the formulation insert.
C4_Witness ==
    /\ result.op = "create"
    /\ result.error \in StorageFailure
    /\ result.writes = 2
    /\ formulations = <<>>
    /\ formulationIngredients = <<>>

RECURSIVE storedPercentageSum(_)
\* Sum of the percentage column over rows, in hundredths.
storedPercentageSum(rows) ==
    IF rows = <<>> THEN 0 ELSE rows[1].percentage + storedPercentageSum(Tail(rows))

\* The rows of every formulation of db sum to 100 within 0.1.
sumsWithinTolerance(db) ==
    \A id \in DOMAIN db.formulations :
        LET t == storedPercentageSum(ingredientsOf(db, id))
        IN  t >= 9990 /\ t <= 10010

\* The tables after the step.
databaseAfter == [formulations |-> formulations',
                  formulationIngredients |-> formulationIngredients']

\* C2 as claimed: the stored rows of every formulation sum to 100 within
\* 0.1 after every call, and a create or update that passes the schema,
\* reaches the sum check and carries percentages off by more than 0.1
\* returns InvalidIngredientMix and writes nothing.
C2_SumKeptAndMixRejected ==
    [][/\ sumsWithinTolerance(databaseAfter)
       /\ \A call \in CreateCalls :
             ( /\ createFormulation(call[1], call[2])
               /\ validateInput(FALSE, call[1]).success
               /\ percentagesInvalid(Val(call[1].ingredients)) )
                 => (result'.error = InvalidIngredientMix /\ UNCHANGED tables)
       /\ \A id \in DOMAIN formulations : \A call \in UpdateCalls :
             ( /\ updateFormulation(id, call[1], call[2])
               /\ ~Active(id)
               /\ validateInput(TRUE, call[1]).success
               /\ IsSome(call[1].ingredients)
               /\ percentagesInvalid(Val(call[1].ingredients)) )
                 => (result'.error = InvalidIngredientMix /\ UNCHANGED tables)]_vars

\* The summary derived from stored rows: the rows in display order, their
\* percentage column read back as a number, sorted and cut like the input.
summaryOfRows(rows) ==
    mainIngredients([i \in 1..Len(rows) |-> [rows[i] EXCEPT !.percentage = @ * 10]])

mainIngredientsDerived(db) ==
    \A id \in DOMAIN db.formulations :
        db.formulations[id].mainIngredients =
            summaryOfRows(orderByDisplayOrder(ingredientsOf(db, id)))

\* C5 as claimed: after every call the stored mainIngredients of every
\* formulation is the top-5 summary of its current ingredient rows, and no
\* call changes mainIngredients without changing the ingredient rows.
C5_MainIngredientsFollowRows ==
    [][/\ mainIngredientsDerived(databaseAfter)
       /\ \A id \in DOMAIN formulations \cap DOMAIN formulations' :
             formulations'[id].mainIngredients # formulations[id].mainIngredients
                 => ingredientsOf(databaseAfter, id) # ingredientsOf(database, id)]_vars

\* C6 as claimed: the stored ingredientCount of every formulation is the
\* number of ingredient rows that reference it.
C6_IngredientCountIsRowCount ==
    \A id \in DOMAIN formulations :
        formulations[id].ingredientCount = Len(ingredientsOf(database, id))

\* C7 as claimed: the status of an existing formulation becomes active, or
\* stops being active, only in a toggleFormulationStatus call.
C7_OnlyToggleCrossesActive ==
    [][\A id \in DOMAIN formulations \cap DOMAIN formulations' :
          (formulations[id].status = "active") # (formulations'[id].status = "active")
              => result'.op = "toggle"]_vars

\* C8 as claimed: a formulation a successful createFormulation call has just
\* inserted has status draft.
C8_CreatedAsDraft ==
    (result.op = "create" /\ result.error = "")
        => formulations[result.id].status = "draft"

\* C9 as claimed: every status change an updateFormulation or
\* toggleFormulationStatus call makes is draft to active, active to draft or
\* draft to archived.
C9_StatusMachine ==
    [][\A id \in DOMAIN formulations \cap DOMAIN formulations' :
          ( /\ result'.op \in {"update", "toggle"}
            /\ formulations'[id].status # formulations[id].status )
              => <<formulations[id].status, formulations'[id].status>>
                    \in {<<"draft", "active">>, <<"active", "draft">>,
                         <<"draft", "archived">>}]_vars

\* An update input that passes the schema, whose percentages sum to 100
\* within the tolerance and whose entries name stored ingredients.
validUpdate(data) ==
    /\ validateInput(TRUE, data).success
    /\ IsSome(data.ingredients) =>
          /\ ~percentagesInvalid(Val(data.ingredients))
          /\ \A i \in 1..Len(Val(data.ingredients)) :
                Val(data.ingredients)[i].ingredientId \in DOMAIN ingredients

\* C10 as claimed: right after toggleFormulationStatus(id, true) a valid
\* update is refused with InvalidState and changes nothing; right after
\* toggleFormulationStatus(id, false) the same update succeeds and its
\* metadata and entries are what the tables then hold.
C10_ToggleGatesUpdate ==
    [][\A id \in DOMAIN formulations : \A data \in UpdateInputs :
          ( /\ result.op = "toggle" /\ result.id = id /\ result.error = ""
            /\ validUpdate(data)
            /\ updateFormulation(id, data, "none") )
              => IF Active(id)
                 THEN result'.error \in InvalidState /\ UNCHANGED tables
                 ELSE /\ result'.error = ""
                      /\ \A k \in MetaKeys \ {"ingredientCount", "mainIngredients"} :
                            IsSome(data[k]) => formulations'[id][k] = Val(data[k])
                      /\ IsSome(data.ingredients) =>
                            Len(ingredientsOf(databaseAfter, id))
                                = Len(Val(data.ingredients))]_vars

-----------------------------------------------------------------------------
(* Duplication, row order and cost allocation.                             *)

\* A create input that passes the schema and the sum check and names a
\* stored animal.
validCreate(data) ==
    /\ validateInput(FALSE, data).success
    /\ ~percentagesInvalid(Val(data.ingredients))
    /\ Val(data.animalId) \in animals

\* Every entry of the list names a stored ingredient.
resolved(entries) ==
    \A i \in 1..Len(entries) : entries[i].ingredientId \in DOMAIN ingredients

\* The stored rows of formulation id after the step, in table order.
rowsAfter(id) == ingredientsOf(databaseAfter, id)

\* What an entry and a stored row have in common.
sameEntry(e, r) ==
    /\ r.ingredientId = e.ingredientId
    /\ r.quantity = e.quantity
    /\ r.ingredientRole = e.ingredientRole
    /\ r.isEssential = e.isEssential

\* C11 as claimed: duplicateFormulation on an existing formulation, whatever
\* its status, succeeds and leaves a new formulation with another
\* identifier, status draft, the new name, and one row per row of the
\* source with the same ingredient, quantity, percentage, role and
\* essential flag.
C11_DuplicateSucceeds ==
    [][\A id \in DOMAIN formulations :
          duplicateFormulation(id, "A (Copy)") =>
              /\ result'.error = ""
              /\ result'.id # id
              /\ result'.id \in DOMAIN formulations'
              /\ formulations'[result'.id].status = "draft"
              /\ formulations'[result'.id].name = "A (Copy)"
              /\ LET old == orderByDisplayOrder(ingredientsOf(database, id))
                     new == orderByDisplayOrder(rowsAfter(result'.id))
                 IN  /\ Len(new) = Len(old)
                     /\ \A i \in 1..Len(old) :
                           /\ sameEntry(old[i], new[i])
                           /\ new[i].percentage = old[i].percentage]_vars

\* The row of the entry at each 0-based position i carries i as its
\* sequenceOrder and displayOrder.
suppliedOrderKept(entries, rows) ==
    \A i \in 1..Len(entries) :
        \E j \in 1..Len(rows) :
            /\ sameEntry(entries[i], rows[j])
            /\ rows[j].sequenceOrder = i - 1
            /\ rows[j].displayOrder = i - 1

\* C12 as claimed: after a successful createFormulation, and after a
\* successful updateFormulation that carries entries, the row of the entry
\* at position i of the caller's list has sequenceOrder = displayOrder = i,
\* whatever the percentages are.
C12_OrderIsSuppliedOrder ==
    [][/\ \A call \in CreateCalls :
             (createFormulation(call[1], call[2]) /\ result'.error = "")
                 => suppliedOrderKept(Val(call[1].ingredients), rowsAfter(result'.id))
       /\ \A id \in DOMAIN formulations : \A call \in UpdateCalls :
             ( /\ updateFormulation(id, call[1], call[2])
               /\ result'.error = ""
               /\ IsSome(call[1].ingredients) )
                 => suppliedOrderKept(Val(call[1].ingredients), rowsAfter(id))]_vars

\* C13 as claimed: a valid createFormulation with totalCost 0, and a valid
\* updateFormulation with entries and totalCost 0, succeed and store
\* costPercentage 0 in every row.
C13_ZeroTotalCostGivesZero ==
    [][/\ \A call \in CreateCalls :
             ( /\ createFormulation(call[1], call[2])
               /\ call[2] = "none"
               /\ validCreate(call[1])
               /\ resolved(Val(call[1].ingredients))
               /\ Val(call[1].totalCost) = 0 )
                 => /\ result'.error = ""
                    /\ \A j \in 1..Len(rowsAfter(result'.id)) :
                          rowsAfter(result'.id)[j].costPercentage = 0
       /\ \A id \in DOMAIN formulations : \A call \in UpdateCalls :
             ( /\ updateFormulation(id, call[1], call[2])
               /\ call[2] = "none"
               /\ ~Active(id)
               /\ validUpdate(call[1])
               /\ IsSome(call[1].ingredients)
               /\ call[1].totalCost = Some(0) )
                 => /\ result'.error = ""
                    /\ \A j \in 1..Len(rowsAfter(id)) :
                          rowsAfter(id)[j].costPercentage = 0]_vars

\* Row r holds ingredientCost / totalCost * 100 in its costPercentage
\* column, to the two decimals of the column: the stored hundredths differ
\* from ingredientCost * 10000 / totalCost by at most one half.
costShareOf(r, totalCost) ==
    LET d == r.costPercentage * totalCost - r.ingredientCost * 10000
    IN  2 * (IF d >= 0 THEN d ELSE -d) <= totalCost

\* C14: after a successful createFormulation with totalCost > 0 every row
\* of the new formulation holds ingredientCost = unit cost of its ingredient
\* times quantity and costPercentage = ingredientCost / totalCost * 100
\* against the totalCost the caller supplied, which is stored as supplied
\* whatever the contributions add up to.
C14_CostAllocation ==
    [][\A call \in CreateCalls :
          ( /\ result'.op = "create"
            /\ result'.error = ""
            /\ createFormulation(call[1], call[2])
            /\ Val(call[1].totalCost) > 0 )
              => /\ formulations'[result'.id].totalCost = Val(call[1].totalCost)
                 /\ \A j \in 1..Len(rowsAfter(result'.id)) :
                       LET r == rowsAfter(result'.id)[j]
                       IN  /\ r.ingredientCost = ingredients[r.ingredientId] * r.quantity
                           /\ costShareOf(r, Val(call[1].totalCost))]_vars

\* Quantities 60 and 40 at unit costs 1.00 and 1.50 were created with
\* totalCost 100.00: contributions 60.00 and 60.00, shares 60.00 and 60.00.
C14_Witness ==
    /\ result.op = "create"
    /\ result.error = ""
    /\ formulations[result.id].totalCost = 10000
    /\ LET rows == ingredientsOf(database, result.id)
       IN  /\ Len(rows) = 2
           /\ rows[1].quantity = 60 /\ rows[1].ingredientCost = 6000
           /\ rows[1].costPercentage = 6000
           /\ rows[2].quantity = 40 /\ rows[2].ingredientCost = 6000
           /\ rows[2].costPercentage = 6000

\* C15 as claimed: a valid updateFormulation with entries on an editable
\* formulation succeeds and computes each new row's costPercentage against
\* the totalCost the call supplies or, when it supplies none, against the
\* totalCost the formulation already holds.
C15_UpdateUsesCurrentTotalCost ==
    [][\A id \in DOMAIN formulations : \A call \in UpdateCalls :
          LET totalCost == IF IsSome(call[1].totalCost) THEN Val(call[1].totalCost)
                           ELSE formulations[id].totalCost
          IN  ( /\ updateFormulation(id, call[1], call[2])
                /\ call[2] = "none"
                /\ ~Active(id)
                /\ validUpdate(call[1])
                /\ IsSome(call[1].ingredients)
                /\ totalCost > 0 )
                  => /\ result'.error = ""
                     /\ \A j \in 1..Len(rowsAfter(id)) :
                           costShareOf(rowsAfter(id)[j], totalCost)]_vars

\* C16 as claimed: a createFormulation or updateFormulation that is valid
\* but for an entry whose ingredient reference names no stored ingredient
\* succeeds, stores one row per entry, and the row of that entry holds
\* ingredientCost 0.
C16_UnresolvedIngredientCostsZero ==
    [][/\ \A call \in CreateCalls :
             ( /\ createFormulation(call[1], call[2])
               /\ call[2] = "none"
               /\ validCreate(call[1])
               /\ ~resolved(Val(call[1].ingredients))
               /\ Val(call[1].totalCost) > 0 )
                 => /\ result'.error = ""
                    /\ Len(rowsAfter(result'.id)) = Len(Val(call[1].ingredients))
                    /\ \A j \in 1..Len(rowsAfter(result'.id)) :
                          rowsAfter(result'.id)[j].ingredientId \notin DOMAIN ingredients
                              => rowsAfter(result'.id)[j].ingredientCost = 0
       /\ \A id \in DOMAIN formulations : \A call \in UpdateCalls :
             ( /\ updateFormulation(id, call[1], call[2])
               /\ call[2] = "none"
               /\ ~Active(id)
               /\ validateInput(TRUE, call[1]).success
               /\ IsSome(call[1].ingredients)
               /\ ~percentagesInvalid(Val(call[1].ingredients))
               /\ ~resolved(Val(call[1].ingredients))
               /\ IsSome(call[1].totalCost)
               /\ Val(call[1].totalCost) > 0 )
                 => /\ result'.error = ""
                    /\ Len(rowsAfter(id)) = Len(Val(call[1].ingredients))
                    /\ \A j \in 1..Len(rowsAfter(id)) :
                          rowsAfter(id)[j].ingredientId \notin DOMAIN ingredients
                              => rowsAfter(id)[j].ingredientCost = 0]_vars

-----------------------------------------------------------------------------
(* Replacement of rows and metadata-only updates.                          *)

\* rows are the rows of entries, one per entry and in their order, owned
\* by formulation id.
replacedBy(id, entries, rows) ==
    /\ Len(rows) = Len(entries)
    /\ \A i \in 1..Len(entries) :
          /\ sameEntry(entries[i], rows[i])
          /\ rows[i].formulationId = id
          /\ rows[i].percentage = percentageColumn(entries[i].percentage)

\* C17: an updateFormulation call that carries entries either succeeds and
\* leaves the formulation with exactly one row per supplied entry, none of
\* its earlier rows surviving, or fails and leaves its rows as they were;
\* no call leaves the rows deleted without the new ones inserted, and the
\* rows of the other formulations stay as they were.
C17_RowsReplacedAtOnce ==
    [][result'.op = "update" =>
          IF result'.error # ""
          THEN formulationIngredients' = formulationIngredients
          ELSE \A call \in UpdateCalls :
                  ( /\ IsSome(call[1].ingredients)
                    /\ updateFormulation(result'.id, call[1], call[2]) )
                      => /\ replacedBy(result'.id, Val(call[1].ingredients),
                                       rowsAfter(result'.id))
                         /\ \A other \in DOMAIN formulations \ {result'.id} :
                               rowsAfter(other) = ingredientsOf(database, other)]_vars

\* An update has replaced the rows of a formulation by the two entries it
\* carried, in four statements.
C17_Witness ==
    /\ result.op = "update"
    /\ result.error = ""
    /\ result.writes = 4
    /\ replacedBy(result.id, MixAsc, ingredientsOf(database, result.id))

-----------------------------------------------------------------------------
(* Ownership of rows.                                                      *)

\* C19: in every state reached by createFormulation, updateFormulation and
\* deleteFormulation calls, one updateFormulation call overlapping the
\* others, every ingredient row names a stored formulation: a delete
\* leaves no row of the formulation behind and an update whose formulation
\* was deleted under it inserts none.
C19_RowsHaveFormulation ==
    \A i \in 1..Len(formulationIngredients) :
        formulationIngredients[i].formulationId \in DOMAIN formulations

\* An update in flight came back with a foreign-key violation: its
\* formulation had been deleted after the existence check.
C19_Witness ==
    /\ result.op = "update"
    /\ result.error = "Foreign key constraint violation"
    /\ result.writes >= 2
    /\ result.id \notin DOMAIN formulations
    /\ formulationIngredients = <<>>

\* C20 as claimed: no formulation has two ingredient rows with the same
\* ingredientId.
C20_OneRowPerIngredient ==
    \A i, j \in 1..Len(formulationIngredients) :
        ( /\ formulationIngredients[i].formulationId = formulationIngredients[j].formulationId
          /\ formulationIngredients[i].ingredientId = formulationIngredients[j].ingredientId )
            => i = j

-----------------------------------------------------------------------------
(* Calls on an identifier that matches no formulation.                     *)

NotFound == {"Formulation not found", "Original formulation not found"}

\* The actions that take the identifier of a formulation.
ById == {"update", "delete", "toggle", "read", "duplicate"}

-----------------------------------------------------------------------------
(* Failure kinds of a rejected mix.                                        *)

\* C22 as claimed: an updateFormulation call on a draft formulation whose
\* data passes the schema and whose percentages sum outside 100 +- 0.1
\* returns InvalidIngredientMix, the error createFormulation returns for
\* such a mix, and not one of the errors returned for storage failures.
C22_UpdateMixRejectedAsCreate ==
    [][\A id \in DOMAIN formulations :
          (result'.op = "update" /\ result'.id = id /\ ~Active(id)) =>
              \A data \in UpdateInputs :
                  ( /\ updateFormulation(id, data, "none")
                    /\ validateInput(TRUE, data).success
                    /\ IsSome(data.ingredients)
                    /\ percentagesInvalid(Val(data.ingredients)) )
                      => /\ result'.error = InvalidIngredientMix
                         /\ result'.error \notin StorageFailure]_vars

\* The calls that supply an ingredients list with no entry.
EmptyListCalls(calls) == {call \in calls : call[1].ingredients = Some(MixEmpty)}

\* C23: a createFormulation call and an updateFormulation call whose
\* ingredients list is empty return Validation failed with a message keyed
\* by the field ingredients, not the error of the sum check, issue no
\* write statement and leave both tables as they were.
C23_EmptyListFailsValidation ==
    [][(result'.op \in {"create", "update"}) =>
          /\ \A call \in EmptyListCalls(CreateCalls) :
                createFormulation(call[1], call[2])
                    => /\ result'.error = ValidationFailed
                       /\ "ingredients" \in result'.validationErrors
                       /\ result'.writes = 0
                       /\ UNCHANGED tables
          /\ \A id \in Ids : \A call \in EmptyListCalls(UpdateCalls) :
                updateFormulation(id, call[1], call[2])
                    => /\ result'.error = ValidationFailed
                       /\ "ingredients" \in result'.validationErrors
                       /\ result'.writes = 0
                       /\ UNCHANGED tables]_vars

\* An update of a stored draft formulation that has ingredient rows came
\* back with a validation message on the field ingredients.
C23_Witness ==
    /\ result.op = "update"
    /\ result.error = ValidationFailed
    /\ "ingredients" \in result.validationErrors
    /\ result.id \in DOMAIN formulations
    /\ ~Active(result.id)
    /\ Len(ingredientsOf(database, result.id)) > 0

-----------------------------------------------------------------------------
(* Reading a formulation.                                                  *)

\* Positions of the table rows that belong to formulation id.
ownedPositions(id) ==
    {i \in 1..Len(formulationIngredients) : formulationIngredients[i].formulationId = id}

\* C24: the ingredient rows a successful getFormulationById(id) returns
\* are the rows the table holds for id, each of them once and no row of
\* another formulation, in ascending displayOrder.
C24_ReadReturnsOwnRowsInOrder ==
    (result.op = "read" /\ result.error = "") =>
        /\ \A i \in 1..Len(result.data) : result.data[i].formulationId = result.id
        /\ Len(result.data) = Cardinality(ownedPositions(result.id))
        /\ \A i \in ownedPositions(result.id) :
              \E j \in 1..Len(result.data) : result.data[j] = formulationIngredients[i]
        /\ \A i, j \in 1..Len(result.data) :
              i < j => result.data[i].displayOrder < result.data[j].displayOrder

\* A read returned the rows of a formulation while the table held rows of
\* another formulation behind some of them.
C24_Witness ==
    /\ result.op = "read"
    /\ result.error = ""
    /\ Len(result.data) >= 2
    /\ \E i, j \in 1..Len(formulationIngredients) :
          /\ i < j
          /\ formulationIngredients[i].formulationId = result.id
          /\ formulationIngredients[j].formulationId # result.id

-----------------------------------------------------------------------------
(* Calls that overlap.                                                     *)

\* C25 as claimed: with toggleFormulationStatus calls running between the
\* checks and the writes of an updateFormulation or deleteFormulation
\* call, no such call deletes a formulation, changes its row or changes
\* its ingredient rows in a step that starts with the formulation stored
\* as active.
C25_NoWriteWhileActive ==
    [][\A id \in DOMAIN formulations :
          (Active(id) /\ result'.op \in {"update", "delete"} /\ result'.id = id)
              => /\ id \in DOMAIN formulations'
                 /\ formulations'[id] = formulations[id]
                 /\ rowsAfter(id) = ingredientsOf(database, id)]_vars

\* C26 as claimed: when an updateFormulation call that carries entries
\* commits after another one on the same formulation has, both of them
\* successful, the formulation's rows are the rows of the entries of the
\* call that committed last, one per entry, ingredientCount is their
\* number and their stored percentages sum to 100 within 0.1.
C26_TwoUpdatesLeaveOneSet ==
    [][( /\ pending # None
         /\ pending' = None
         /\ Val(pending).op = "update"
         /\ IsSome(Val(pending).data.ingredients)
         /\ result.op = "update" /\ result.id = Val(pending).id
         /\ result.error = "" /\ result.writes = 4
         /\ result'.error = "" )
          => LET id == Val(pending).id
                 rows == rowsAfter(id)
             IN  /\ replacedBy(id, Val(Val(pending).data.ingredients), rows)
                 /\ formulations'[id].ingredientCount = Len(rows)
                 /\ storedPercentageSum(rows) >= 9990
                 /\ storedPercentageSum(rows) <= 10010]_vars

-----------------------------------------------------------------------------
(* Order of validation and writes.                                         *)

\* C27 as claimed: a createFormulation or updateFormulation call that ends
\* in a validation failure, from the schema or from the sum check, has
\* issued no write statement: a call that returns Validation failed or
\* Invalid ingredient percentages, and an update of a draft formulation
\* whose data passes the schema and whose percentages fail the sum check,
\* count zero writes.
C27_ValidationBeforeWrites ==
    [][(result'.op \in {"create", "update"}) =>
          /\ result'.error \in {ValidationFailed, InvalidIngredientMix}
                => result'.writes = 0
          /\ \A id \in DOMAIN formulations :
                (result'.op = "update" /\ result'.id = id /\ ~Active(id)) =>
                    \A data \in UpdateInputs :
                        ( /\ updateFormulation(id, data, "none")
                          /\ validateInput(TRUE, data).success
                          /\ IsSome(data.ingredients)
                          /\ percentagesInvalid(Val(data.ingredients)) )
                            => result'.writes = 0]_vars

-----------------------------------------------------------------------------
(* Unit-cost lookups.                                                      *)

\* C28 as claimed: a createFormulation or updateFormulation call selects
\* the unit cost of no ingredient reference twice, however many of its
\* entries name that reference.
C28_OneLookupPerReference ==
    result.op \in {"create", "update"} =>
        \A i, j \in 1..Len(result.lookups) :
            result.lookups[i] = result.lookups[j] => i = j

-----------------------------------------------------------------------------
(* Keys createFormulation sets itself.                                     *)

\* C29: the formulation row a successful createFormulation call stores
\* has ingredientCount equal to the number of entries of the call,
\* meetsRequirements false and nutritionalAnalysis '{}', whatever the call
\* supplied for these three keys.
C29_CreateOverridesSummaryKeys ==
    [][(result'.op = "create" /\ result'.error = "") =>
          \A call \in CreateCalls :
              createFormulation(call[1], call[2]) =>
                  /\ formulations'[result'.id].ingredientCount
                        = Len(Val(call[1].ingredients))
                  /\ formulations'[result'.id].meetsRequirements = FALSE
                  /\ formulations'[result'.id].nutritionalAnalysis = "{}"]_vars

\* A create that supplied ingredientCount 0, meetsRequirements true and a
\* nutritionalAnalysis of its own with six entries was stored with count
\* six, meetsRequirements false and nutritionalAnalysis '{}'.
C29_Witness ==
    /\ result.op = "create"
    /\ result.error = ""
    /\ BaseData.ingredientCount = Some(0)
    /\ BaseData.meetsRequirements = Some(TRUE)
    /\ BaseData.nutritionalAnalysis = Some("{protein}")
    /\ Len(ingredientsOf(database, result.id)) = 6
    /\ formulations[result.id].ingredientCount = 6
    /\ formulations[result.id].meetsRequirements = FALSE
    /\ formulations[result.id].nutritionalAnalysis = "{}"

-----------------------------------------------------------------------------
(* Bulk import.                                                            *)

\* C30: an importIngredients call on a list the schema accepts, under any
\* of the option combinations, whose reads before the loop succeed, takes
\* every entry through the loop, the entries behind a failed one included,
\* and returns counters with imported + skipped + errors.length equal to
\* the number of entries received.
C30_ImportCountsEveryEntry ==
    (result.op = "import" /\ result.error = "") =>
        /\ result.received >= 1
        /\ Len(result.log) = result.received
        /\ result.imported + result.skipped + Len(result.errors) = result.received

\* An import of three entries lost its first entry to a failure and
\* imported the one behind it.
C30_Witness ==
    /\ result.op = "import"
    /\ result.error = ""
    /\ result.received = 3
    /\ result.log[1] = "error"
    /\ result.log[2] = "imported"
    /\ Len(result.errors) >= 1

====
